---- MODULE Spec2Model ----
(***************************************************************************)
(* Kubeconfig sync (src/main/catalog-sources/kubeconfig-sync.ts):          *)
(* KubeconfigSyncManager, watchFileChanges, diffChangedConfig and          *)
(* computeDiff as a state machine.                                         *)
(*                                                                         *)
(* Spec         the whole program: manager, watchers, readers and maps      *)
(* ManagerSpec  the Sync Manager alone (startSync, stopSync, configuration, *)
(*              stat); its actions read no watcher, reader or map state     *)
(* WatchSpec    the watcher of the well-known folder with its readers, from *)
(*              the state startSync() and one successful stat leave         *)
(* OverlapSpec  the same with a file of that folder configured as well      *)
(* DiffSpec     computeDiff alone, applied repeatedly to one file's map     *)
(*                                                                         *)
(* chokidar is taken to emit, per file, add, then change*, then unlink.     *)
(***************************************************************************)
EXTENDS Integers, Sequences, FiniteSets, TLC

\* ------------------------------------------------------------------ bounds
\* chokidar watchers created over a run
MaxWatchers == 2
\* read streams created over a run
MaxReaders == 3
\* startNewSync calls of one path awaiting fse.stat at the same time
MaxPending == 2
\* contexts in one file's content (DiffSpec)
MaxContexts == 2
\* successive computeDiff applications (DiffSpec)
MaxApply == 2
MaxConnects == 3

\* ------------------------------------------------------- file system layout
\* os.homedir()
homedir == "/h"

\* ClusterPreferencesStore.storedKubeConfigFolder: a directory
storedKubeConfigFolder == "/h/K"

\* the paths the user can put into UserStore.syncKubeconfigEntries
ConfigPaths == {"/h/K/a"}

WatchedPaths == {storedKubeConfigFolder} \cup ConfigPaths

\* stat.isDirectory()
isDirectory(filePath) == filePath = storedKubeConfigFolder

\* the files chokidar reports for a watched path: the immediate children of
\* a directory (depth 0), the file itself for a file (depth 1)
ChildFiles(filePath) ==
    IF isDirectory(filePath) THEN {"/h/K/a", "/h/K/b"} ELSE {filePath}

AllFiles == UNION {ChildFiles(p) : p \in WatchedPaths}

\* ------------------------------------------------------------ file contents
ContextNames == {"c1", "c2", "c3"}

\* contexts for which catalogEntityFromCluster throws
UnbuildableContexts == {"c3"}

\* one context of a kubeconfig: its name and whether validateKubeConfig
\* accepts it
ContextConfigs == [currentContext : ContextNames, valid : BOOLEAN]

\* text that loadConfigFromString rejects; Buffer.concat of no chunk (the
\* empty string) is such a text
Malformed == [parses |-> FALSE, contexts |-> << >>]

Text(contexts) == [parses |-> TRUE, contexts |-> contexts]

RECURSIVE SeqsUpTo(_, _)
SeqsUpTo(S, n) ==
    IF n = 0 THEN {<< >>}
    ELSE LET shorter == SeqsUpTo(S, n - 1)
         IN  shorter \cup {Append(s, x) : s \in {t \in shorter : Len(t) = n - 1}, x \in S}

\* every content computeDiff is tried on (DiffSpec)
AllContents == {Malformed} \cup {Text(cs) : cs \in SeqsUpTo(ContextConfigs, MaxContexts)}

\* what the files hold when one of their contexts cannot be built
LiveContents ==
    { Text(<< [currentContext |-> "c1", valid |-> TRUE],
              [currentContext |-> "c3", valid |-> TRUE] >>),
      Text(<< [currentContext |-> "c2", valid |-> TRUE] >>) }

\* the contents files hold in Spec
SyncContents ==
    { Malformed,
      Text(<< [currentContext |-> "c1", valid |-> TRUE],
              [currentContext |-> "c2", valid |-> TRUE] >>) }

\* ------------------------------------------------------------- computeDiff
\* splitConfig: one config per context, in file order
splitConfig(config) == config.contexts

\* validateKubeConfig: an error or nothing
validateKubeConfig(contextConfig) ==
    IF contextConfig.valid THEN "" ELSE "invalid context"

RECURSIVE configToModelsFrom(_, _, _)
configToModelsFrom(split, i, filePath) ==
    IF i > Len(split) THEN << >>
    ELSE LET contextConfig == split[i]
             rest == configToModelsFrom(split, i + 1, filePath)
         IN  IF validateKubeConfig(contextConfig) # ""
             THEN rest
             ELSE << [kubeConfigPath |-> filePath,
                      contextName |-> contextConfig.currentContext] >> \o rest

configToModels(config, filePath) == configToModelsFrom(splitConfig(config), 1, filePath)

\* new Map(rawModels.map(m => [m.contextName, m])): the last model of a name wins
ModelMap(rawModels) ==
    [n \in {rawModels[i].contextName : i \in DOMAIN rawModels} |->
        rawModels[CHOOSE i \in DOMAIN rawModels :
                     /\ rawModels[i].contextName = n
                     /\ \A j \in DOMAIN rawModels : rawModels[j].contextName = n => j <= i]]

\* createHash("md5").update(`${filePath}:${contextName}`).digest("hex")
md5(str) == "md5(" \o str \o ")"

clusterIdOf(filePath, contextName) == md5(filePath \o ":" \o contextName)

\* String.prototype.replace(homedir(), "~"): the first occurrence only
ReplaceHome(str) ==
    LET n == Len(homedir)
        hits == {i \in 1..(Len(str) - n + 1) : SubSeq(str, i, i + n - 1) = homedir}
    IN  IF hits = {} THEN str
        ELSE LET i == CHOOSE k \in hits : \A j \in hits : k <= j
             IN  SubSeq(str, 1, i - 1) \o "~" \o SubSeq(str, i + n, Len(str))

builderThrows(model) == model.contextName \in UnbuildableContexts

\* catalogEntityFromCluster plus the label; obj tells one built object from
\* another built from the same model
catalogEntityFromCluster(id, model, obj) ==
    [id |-> id,
     contextName |-> model.contextName,
     kubeConfigPath |-> model.kubeConfigPath,
     file |-> ReplaceHome(model.kubeConfigPath),
     obj |-> obj]

EmptyMap == [n \in {} |-> 0]

\* a catch that logs and leaves the map as it is
ClearedSource_keeps(source) == source

\* source.clear()
ClearedSource(source) == EmptyMap

\* a first loop that deletes nothing from the map
removeOld_none(source, models) == source

\* the first loop of computeDiff, on the map: contexts gone from the
\* config are deleted
removeOld(source, models) ==
    [n \in {k \in DOMAIN source : k \in DOMAIN models} |-> source[n]]

\* a first loop that forgets models.delete(contextName)
remainingModels_all(source, models) == models

\* the first loop of computeDiff, on the models: a context the map already
\* holds is not to be added (models.delete)
remainingModels(source, models) ==
    [n \in {k \in DOMAIN models : k \notin DOMAIN source} |-> models[n]]

\* a second loop without its try: one throwing builder reaches the outer catch
addNew_noTry(source, models, filePath, obj) ==
    IF \E n \in DOMAIN models : builderThrows(models[n])
    THEN EmptyMap
    ELSE [n \in DOMAIN source \cup DOMAIN models |->
             IF n \in DOMAIN models
             THEN catalogEntityFromCluster(clusterIdOf(filePath, n), models[n], obj)
             ELSE source[n]]

\* the second loop of computeDiff: source.set for every model whose entity
\* can be built, the others are logged and skipped
addNew(source, models, filePath, obj) ==
    LET built == {n \in DOMAIN models : ~builderThrows(models[n])}
    IN  [n \in DOMAIN source \cup built |->
            IF n \in built
            THEN catalogEntityFromCluster(clusterIdOf(filePath, n), models[n], obj)
            ELSE source[n]]

\* the body of the runInAction of computeDiff; obj names the objects built
computeDiff(contents, source, filePath, obj) ==
    IF ~contents.parses
    THEN ClearedSource(source)
    ELSE LET models == ModelMap(configToModels(contents, filePath))
         IN  addNew(removeOld(source, models), remainingModels(source, models),
                    filePath, obj)

\* ------------------------------------------------------------------- state
VARIABLES
    config,      \* UserStore.syncKubeconfigEntries: the configured paths
    disposers,   \* KubeconfigSyncManager.disposers
    registered,  \* registrations of computedSource in the catalog registry
    sources,     \* KubeconfigSyncManager.sources: path -> watcher
    pending,     \* startNewSync calls awaiting fse.stat, per path
    watchers,    \* the chokidar watchers created so far
    readers,     \* the read streams created so far
    maps,        \* the per-file observable maps created so far
    dFile,       \* DiffSpec: the file computeDiff is applied to
    dContents,   \* DiffSpec: the contents applied so far
    dSources,    \* DiffSpec: the map after each application
    bSource,     \* BatchSpec: the observable map computeDiff is mutating
    bBefore,     \* BatchSpec: that map when the last computeDiff began
    bContents,   \* BatchSpec: the contents handed to the computeDiff calls
    todo,        \* BatchSpec: the mutations the running computeDiff has left
    running,     \* BatchSpec: a computeDiff call is on the stack
    inBatch,     \* BatchSpec: a MobX batch (action) is open
    stale,       \* BatchSpec: the computed views were invalidated in the batch
    observed,    \* BatchSpec: the view value the consumers were last handed
    tabs,        \* dockStore.tabs: the ids of the dock tabs
    connections, \* TerminalStore.connections: tab id -> TerminalApi
    terminals,   \* TerminalStore.terminals: tab id -> Terminal
    created,     \* the TerminalApi objects constructed so far
    destroyed    \* the objects whose destroy() was called

syncVars == <<config, disposers, registered, sources, pending, watchers, readers, maps>>
diffVars == <<dFile, dContents, dSources>>
batchVars == <<bSource, bBefore, bContents, todo, running, inBatch, stale, observed>>
termVars == <<tabs, connections, terminals, created, destroyed>>
vars == <<config, disposers, registered, sources, pending, watchers, readers, maps,
          dFile, dContents, dSources,
          bSource, bBefore, bContents, todo, running, inBatch, stale, observed,
          tabs, connections, terminals, created, destroyed>>

Range(f) == {f[x] : x \in DOMAIN f}

SyncInit ==
    /\ config \in SUBSET ConfigPaths
    /\ disposers = << >>
    /\ registered = 0
    /\ sources = EmptyMap
    /\ pending = [p \in WatchedPaths |-> 0]
    /\ watchers = << >>
    /\ readers = << >>
    /\ maps = << >>

DiffIdle ==
    /\ dFile = storedKubeConfigFolder
    /\ dContents = << >>
    /\ dSources = << >>

\* no computeDiff was called: nothing is left to do, the consumers hold the
\* view of the empty map
NothingToDo == [clear |-> FALSE, deletes |-> {}, sets |-> {}]

BatchIdle ==
    /\ bSource = EmptyMap
    /\ bBefore = EmptyMap
    /\ bContents = << >>
    /\ todo = NothingToDo
    /\ running = FALSE
    /\ inBatch = FALSE
    /\ stale = FALSE
    /\ observed = {}

\* new TerminalStore(): both maps are empty; no dock tab exists
TermIdle ==
    /\ tabs = {}
    /\ connections = EmptyMap
    /\ terminals = EmptyMap
    /\ created = 0
    /\ destroyed = {}

Init == SyncInit /\ DiffIdle /\ BatchIdle /\ TermIdle

\* ----------------------------------------------------------- Sync Manager
\* get syncing
syncing == disposers # << >>

observing == "configObserver" \in Range(disposers)

\* startNewSync up to its await: the has() check, then fse.stat is started
startNewSync(pend, filePath) ==
    IF filePath \in DOMAIN sources THEN pend
    ELSE [pend EXCEPT ![filePath] = @ + 1]

RECURSIVE startNewSyncAll(_, _)
startNewSyncAll(pend, paths) ==
    IF paths = {} THEN pend
    ELSE LET p == CHOOSE q \in paths : TRUE
         IN  startNewSyncAll(startNewSync(pend, p), paths \ {p})

\* stopOldSync: sources.delete(filePath); the Disposer of the entry is dropped
\* with it
stopOldSync(srcs, filePath) ==
    [p \in DOMAIN srcs \ {filePath} |-> srcs[p]]

RECURSIVE stopOldSyncAll(_, _)
stopOldSyncAll(srcs, paths) ==
    IF paths = {} THEN srcs
    ELSE LET p == CHOOSE q \in paths : TRUE
         IN  stopOldSyncAll(stopOldSync(srcs, p), paths \ {p})

WithinPending(pend) == \A p \in WatchedPaths : pend[p] <= MaxPending

\* startSync(); fireImmediately tells whether observe(..., true) replays the
\* current entries as "add" changes
StartSync(fireImmediately) ==
    IF syncing
    THEN UNCHANGED vars
    ELSE LET afterFolder == startNewSync(pending, storedKubeConfigFolder)
             afterEntries == startNewSyncAll(afterFolder, config)
             afterObserve == IF fireImmediately
                             THEN startNewSyncAll(afterEntries, config)
                             ELSE afterEntries
         IN  /\ WithinPending(afterObserve)
             /\ disposers' = << "catalogSource", "configObserver" >>
             /\ registered' = registered + 1
             /\ pending' = afterObserve
             /\ UNCHANGED <<config, sources, watchers, readers, maps>>
             /\ UNCHANGED <<diffVars, batchVars, termVars>>

\* stopSync()
StopSync ==
    /\ disposers' = << >>
    /\ registered' = registered - Cardinality({i \in DOMAIN disposers : disposers[i] = "catalogSource"})
    /\ sources' = stopOldSyncAll(sources, DOMAIN sources)
    /\ UNCHANGED <<config, pending, watchers, readers, maps>>
    /\ UNCHANGED <<diffVars, batchVars, termVars>>

\* syncKubeconfigEntries.set(path, ...) of a new key, and the observer's "add"
ConfigAdd(filePath) ==
    /\ filePath \notin config
    /\ config' = config \cup {filePath}
    /\ pending' = IF observing THEN startNewSync(pending, filePath) ELSE pending
    /\ WithinPending(pending')
    /\ UNCHANGED <<disposers, registered, sources, watchers, readers, maps>>
    /\ UNCHANGED <<diffVars, batchVars, termVars>>

\* syncKubeconfigEntries.delete(path), and the observer's "delete"
ConfigDelete(filePath) ==
    /\ filePath \in config
    /\ config' = config \ {filePath}
    /\ sources' = IF observing THEN stopOldSync(sources, filePath) ELSE sources
    /\ UNCHANGED <<disposers, registered, pending, watchers, readers, maps>>
    /\ UNCHANGED <<diffVars, batchVars, termVars>>

\* watchFileChanges after the stat: the watcher and its empty bookkeeping;
\* tracked holds the files chokidar has announced and not unlinked, threw
\* tells that a handler called a handle stoppers did not hold (a TypeError)
NewWatcher(filePath) ==
    [filePath |-> filePath,
     depth |-> IF isDirectory(filePath) THEN 0 ELSE 1,
     closed |-> FALSE,
     tracked |-> {},
     threw |-> FALSE,
     rootSource |-> EmptyMap,
     stoppers |-> EmptyMap]

\* a startNewSync without its catch: the rejection ends the sync
StatSettles_failAborts(filePath, ok) ==
    /\ pending[filePath] > 0
    /\ pending' = [pending EXCEPT ![filePath] = @ - 1]
    /\ IF ok
       THEN /\ Len(watchers) < MaxWatchers
            /\ watchers' = Append(watchers, NewWatcher(filePath))
            /\ sources' = [p \in DOMAIN sources \cup {filePath} |->
                              IF p = filePath THEN Len(watchers) + 1 ELSE sources[p]]
            /\ UNCHANGED <<disposers, registered>>
       ELSE /\ disposers' = << >>
            /\ registered' = 0
            /\ UNCHANGED <<watchers, sources>>
    /\ UNCHANGED <<config, readers, maps>>
    /\ UNCHANGED <<diffVars, batchVars, termVars>>

\* fse.stat settles for one startNewSync of filePath: on success the watcher
\* is created and sources.set, on rejection the catch logs
StatSettles(filePath, ok) ==
    /\ pending[filePath] > 0
    /\ pending' = [pending EXCEPT ![filePath] = @ - 1]
    /\ IF ok
       THEN /\ Len(watchers) < MaxWatchers
            /\ watchers' = Append(watchers, NewWatcher(filePath))
            /\ sources' = [p \in DOMAIN sources \cup {filePath} |->
                              IF p = filePath THEN Len(watchers) + 1 ELSE sources[p]]
       ELSE UNCHANGED <<watchers, sources>>
    /\ UNCHANGED <<config, disposers, registered, readers, maps>>
    /\ UNCHANGED <<diffVars, batchVars, termVars>>

\* --------------------------------------------------------- Streaming Reader
\* diffChangedConfig up to its return: the stream is open, the four listeners
\* are attached, nothing is buffered.  applied, before, cancelled and unread
\* record the reader's history: the diffs it applied, the map it found, the
\* handler that invoked its cleanup while it was still reading, and the
\* chunks it had buffered then
NewReader(w, filePath, source, found) ==
    [watcher |-> w,
     filePath |-> filePath,
     source |-> source,
     bufs |-> << >>,
     closed |-> FALSE,
     listening |-> TRUE,
     phase |-> "open",
     applied |-> 0,
     before |-> found,
     cancelled |-> "no",
     unread |-> 0]

\* a cleanup that only closes the file: the flag and the listeners are left
cleanup_closeOnly(reader) == reader

\* cleanup(): closed = true, the stream is closed and ended artificially,
\* removeAllListeners(); no listener is left to read bufs, so the chunks are
\* dropped with the listeners
cleanup(reader) ==
    [reader EXCEPT !.closed = TRUE, !.listening = FALSE, !.bufs = << >>]

\* a reader whose result is still awaited
Outstanding(reader) == reader.phase = "open" /\ ~reader.closed

\* the Disposer diffChangedConfig returned, invoked by a watcher handler; of
\* a reader still reading, the handler and the chunks it had are recorded
InvokeStopper(reader, by) ==
    IF Outstanding(reader)
    THEN [cleanup(reader) EXCEPT !.cancelled = by, !.unread = Len(reader.bufs)]
    ELSE cleanup(reader)

\* "data": bufs.push(chunk); the content of the file arrives as one chunk
StreamData(r, contents) ==
    /\ r \in DOMAIN readers
    /\ readers[r].phase = "open"
    /\ readers[r].listening
    /\ readers[r].bufs = << >>
    /\ readers' = [readers EXCEPT ![r].bufs = Append(@, contents)]
    /\ UNCHANGED <<config, disposers, registered, sources, pending, watchers, maps>>
    /\ UNCHANGED <<diffVars, batchVars, termVars>>

\* Buffer.concat(bufs).toString("utf-8")
Buffered(reader) == IF reader.bufs = << >> THEN Malformed ELSE reader.bufs[1]

\* an "end" listener that never diffs
endApplies_never(reader) == FALSE

\* the "end" listener runs computeDiff unless the reader is closed
endApplies(reader) == reader.listening /\ ~reader.closed

\* "end": the stream ends, by itself or through the end-of-stream that
\* cleanup() pushed
StreamEnd(r) ==
    /\ r \in DOMAIN readers
    /\ readers[r].phase = "open"
    /\ LET reader == readers[r]
       IN  IF endApplies(reader)
           THEN /\ maps' = [maps EXCEPT ![reader.source] =
                               computeDiff(Buffered(reader), @, reader.filePath, r)]
                /\ readers' = [readers EXCEPT ![r].phase = "ended",
                                              ![r].applied = @ + 1]
           ELSE /\ readers' = [readers EXCEPT ![r].phase = "ended"]
                /\ UNCHANGED maps
    /\ UNCHANGED <<config, disposers, registered, sources, pending, watchers>>
    /\ UNCHANGED <<diffVars, batchVars, termVars>>

\* an "error" listener that diffs what was buffered before it cleans up
StreamError_applies(r) ==
    /\ r \in DOMAIN readers
    /\ readers[r].phase = "open"
    /\ readers[r].listening
    /\ maps' = [maps EXCEPT ![readers[r].source] =
                   computeDiff(Buffered(readers[r]), @, readers[r].filePath, r)]
    /\ readers' = [readers EXCEPT ![r] = [cleanup(@) EXCEPT !.phase = "errored"]]
    /\ UNCHANGED <<config, disposers, registered, sources, pending, watchers>>
    /\ UNCHANGED <<diffVars, batchVars, termVars>>

\* "error": the stream fails; the listener cleans up and logs
StreamError(r) ==
    /\ r \in DOMAIN readers
    /\ readers[r].phase = "open"
    /\ readers[r].listening
    /\ readers' = [readers EXCEPT ![r] = [cleanup(@) EXCEPT !.phase = "errored"]]
    /\ UNCHANGED <<config, disposers, registered, sources, pending, watchers, maps>>
    /\ UNCHANGED <<diffVars, batchVars, termVars>>

\* a "close" listener that also forgets the handle recorded for its file
StreamClose_dropsHandle(r) ==
    /\ r \in DOMAIN readers
    /\ readers[r].phase = "ended"
    /\ readers[r].listening
    /\ readers' = [readers EXCEPT ![r] = cleanup(@)]
    /\ watchers' = [watchers EXCEPT
           ![readers[r].watcher].stoppers =
               [f \in DOMAIN @ \ {readers[r].filePath} |-> @[f]]]
    /\ UNCHANGED <<config, disposers, registered, sources, pending, maps>>
    /\ UNCHANGED <<diffVars, batchVars, termVars>>

\* "close" after the stream ended by itself: the listener cleans up
StreamClose(r) ==
    /\ r \in DOMAIN readers
    /\ readers[r].phase = "ended"
    /\ readers[r].listening
    /\ readers' = [readers EXCEPT ![r] = cleanup(@)]
    /\ UNCHANGED <<config, disposers, registered, sources, pending, watchers, maps>>
    /\ UNCHANGED <<diffVars, batchVars, termVars>>

\* ------------------------------------------------------------ Source Watcher
\* the events chokidar emits for one file come as add, change*, unlink
Tracked(w, childFilePath) == childFilePath \in watchers[w].tracked

Emits(w, childFilePath) ==
    /\ w \in DOMAIN watchers
    /\ ~watchers[w].closed
    /\ childFilePath \in ChildFiles(watchers[w].filePath)

\* rootSource.getOrInsert(childFilePath, ExtendedObservableMap.new): the map
\* of the file, created when there is none
getOrInsert(w, childFilePath) ==
    IF childFilePath \in DOMAIN watchers[w].rootSource
    THEN watchers[w].rootSource[childFilePath]
    ELSE Len(maps) + 1

Inserted(w, childFilePath) ==
    IF childFilePath \in DOMAIN watchers[w].rootSource
    THEN maps
    ELSE Append(maps, EmptyMap)

SetKey(f, k, v) == [x \in DOMAIN f \cup {k} |-> IF x = k THEN v ELSE f[x]]

DeleteKey(f, k) == [x \in DOMAIN f \ {k} |-> f[x]]

\* diffChangedConfig(childFilePath, rootSource.getOrInsert(...)) and
\* stoppers.set(childFilePath, ...)
StartRead(w, childFilePath, rds) ==
    LET source == getOrInsert(w, childFilePath)
        allMaps == Inserted(w, childFilePath)
    IN  /\ maps' = allMaps
        /\ readers' = Append(rds, NewReader(w, childFilePath, source, allMaps[source]))
        /\ watchers' = [watchers EXCEPT
               ![w].tracked = @ \cup {childFilePath},
               ![w].rootSource = SetKey(@, childFilePath, source),
               ![w].stoppers = SetKey(@, childFilePath, Len(rds) + 1)]

\* on "add"
OnAdd(w, childFilePath) ==
    /\ Emits(w, childFilePath)
    /\ ~Tracked(w, childFilePath)
    /\ Len(readers) < MaxReaders
    /\ StartRead(w, childFilePath, readers)
    /\ UNCHANGED <<config, disposers, registered, sources, pending>>
    /\ UNCHANGED <<diffVars, batchVars, termVars>>

\* a "change" handler that starts the new read without stopping the old one
OnChange_noStop(w, childFilePath) ==
    /\ Emits(w, childFilePath)
    /\ Tracked(w, childFilePath)
    /\ Len(readers) < MaxReaders
    /\ StartRead(w, childFilePath, readers)
    /\ UNCHANGED <<config, disposers, registered, sources, pending>>
    /\ UNCHANGED <<diffVars, batchVars, termVars>>

\* stoppers.get(childFilePath)() on a file stoppers does not hold: the
\* handler throws before it does anything else
HandleMissing(w) ==
    /\ watchers' = [watchers EXCEPT ![w].threw = TRUE]
    /\ UNCHANGED <<readers, maps>>

\* on "change"
OnChange(w, childFilePath) ==
    /\ Emits(w, childFilePath)
    /\ Tracked(w, childFilePath)
    /\ Len(readers) < MaxReaders
    /\ IF childFilePath \in DOMAIN watchers[w].stoppers
       THEN LET old == watchers[w].stoppers[childFilePath]
            IN  StartRead(w, childFilePath,
                          [readers EXCEPT ![old] = InvokeStopper(@, "change")])
       ELSE HandleMissing(w)
    /\ UNCHANGED <<config, disposers, registered, sources, pending>>
    /\ UNCHANGED <<diffVars, batchVars, termVars>>

\* an "unlink" handler that forgets rootSource.delete(childFilePath)
OnUnlink_keepsMap(w, childFilePath) ==
    /\ Emits(w, childFilePath)
    /\ Tracked(w, childFilePath)
    /\ LET old == watchers[w].stoppers[childFilePath]
       IN  readers' = [readers EXCEPT ![old] = InvokeStopper(@, "unlink")]
    /\ watchers' = [watchers EXCEPT
           ![w].tracked = @ \ {childFilePath},
           ![w].stoppers = DeleteKey(@, childFilePath)]
    /\ UNCHANGED <<config, disposers, registered, sources, pending, maps>>
    /\ UNCHANGED <<diffVars, batchVars, termVars>>

\* on "unlink"
OnUnlink(w, childFilePath) ==
    /\ Emits(w, childFilePath)
    /\ Tracked(w, childFilePath)
    /\ IF childFilePath \in DOMAIN watchers[w].stoppers
       THEN /\ LET old == watchers[w].stoppers[childFilePath]
               IN  readers' = [readers EXCEPT ![old] = InvokeStopper(@, "unlink")]
            /\ watchers' = [watchers EXCEPT
                   ![w].tracked = @ \ {childFilePath},
                   ![w].stoppers = DeleteKey(@, childFilePath),
                   ![w].rootSource = DeleteKey(@, childFilePath)]
       ELSE /\ watchers' = [watchers EXCEPT
                   ![w].tracked = @ \ {childFilePath},
                   ![w].threw = TRUE]
            /\ UNCHANGED readers
    /\ UNCHANGED <<config, disposers, registered, sources, pending, maps>>
    /\ UNCHANGED <<diffVars, batchVars, termVars>>

\* the Disposer watchFileChanges returns: watcher.close() ends the
\* filesystem subscription; the readers and stoppers are not touched
Teardown(w) ==
    /\ w \in DOMAIN watchers
    /\ ~watchers[w].closed
    /\ watchers' = [watchers EXCEPT ![w].closed = TRUE]
    /\ UNCHANGED <<config, disposers, registered, sources, pending, readers, maps>>
    /\ UNCHANGED <<diffVars, batchVars, termVars>>

\* ------------------------------------------------------------------- views
\* derivedSource of a watcher: the entities of all its maps, one element per
\* (file, context) that holds one
derivedSource(w) ==
    UNION { { [filePath |-> f, contextName |-> n,
               entity |-> maps[watchers[w].rootSource[f]][n]] :
                 n \in DOMAIN maps[watchers[w].rootSource[f]] } :
            f \in DOMAIN watchers[w].rootSource }

\* computedSource of the manager: the entities of all sources, one element
\* per (source, file, context)
computedSource ==
    UNION { { [source |-> p, filePath |-> e.filePath, contextName |-> e.contextName,
               entity |-> e.entity] : e \in derivedSource(sources[p]) } :
            p \in DOMAIN sources }

\* ------------------------------------------------------------ specification
Next ==
    \/ \E fireImmediately \in BOOLEAN : StartSync(fireImmediately)
    \/ StopSync
    \/ \E p \in ConfigPaths : ConfigAdd(p)
    \/ \E p \in ConfigPaths : ConfigDelete(p)
    \/ \E p \in WatchedPaths, ok \in BOOLEAN : StatSettles(p, ok)
    \/ \E w \in 1..MaxWatchers, f \in AllFiles : OnAdd(w, f)
    \/ \E w \in 1..MaxWatchers, f \in AllFiles : OnChange(w, f)
    \/ \E w \in 1..MaxWatchers, f \in AllFiles : OnUnlink(w, f)
    \/ \E r \in 1..MaxReaders, c \in SyncContents : StreamData(r, c)
    \/ \E r \in 1..MaxReaders : StreamEnd(r)
    \/ \E r \in 1..MaxReaders : StreamError(r)
    \/ \E r \in 1..MaxReaders : StreamClose(r)

Spec == Init /\ [][Next]_vars

\* -------------------------------------------------- the Sync Manager by itself
\* no manager action reads stoppers, rootSource, readers or maps
ManagerNext ==
    \/ \E fireImmediately \in BOOLEAN : StartSync(fireImmediately)
    \/ StopSync
    \/ \E p \in ConfigPaths : ConfigAdd(p)
    \/ \E p \in ConfigPaths : ConfigDelete(p)
    \/ \E p \in WatchedPaths, ok \in BOOLEAN : StatSettles(p, ok)

ManagerSpec == Init /\ [][ManagerNext]_vars

\* ------------------------------------------- the Source Watchers by themselves
\* the manager once startSync() ran and the stat of every path of installed
\* succeeded, in that order
Installed(installed) ==
    /\ disposers = << "catalogSource", "configObserver" >>
    /\ registered = 1
    /\ sources = [p \in Range(installed) |->
                     CHOOSE i \in DOMAIN installed : installed[i] = p]
    /\ pending = [p \in WatchedPaths |-> 0]
    /\ watchers = [i \in DOMAIN installed |-> NewWatcher(installed[i])]
    /\ readers = << >>
    /\ maps = << >>
    /\ DiffIdle
    /\ BatchIdle
    /\ TermIdle

\* nothing is configured: the well-known folder alone is watched
WatchInit ==
    /\ config = {}
    /\ Installed(<< storedKubeConfigFolder >>)

\* a file of the well-known folder is configured as well
OverlapInit ==
    /\ config = {"/h/K/a"}
    /\ Installed(<< storedKubeConfigFolder, "/h/K/a" >>)

WatchNext ==
    \/ \E w \in 1..MaxWatchers, f \in AllFiles : OnAdd(w, f)
    \/ \E w \in 1..MaxWatchers, f \in AllFiles : OnChange(w, f)
    \/ \E w \in 1..MaxWatchers, f \in AllFiles : OnUnlink(w, f)
    \/ \E r \in 1..MaxReaders, c \in SyncContents : StreamData(r, c)
    \/ \E r \in 1..MaxReaders : StreamEnd(r)
    \/ \E r \in 1..MaxReaders : StreamError(r)
    \/ \E r \in 1..MaxReaders : StreamClose(r)

WatchSpec == WatchInit /\ [][WatchNext]_vars

OverlapSpec == OverlapInit /\ [][WatchNext]_vars

\* the watcher of the well-known folder and the holder of its Disposer
TeardownNext ==
    \/ WatchNext
    \/ \E w \in 1..MaxWatchers : Teardown(w)

TeardownSpec == WatchInit /\ [][TeardownNext]_vars

\* the watcher of the well-known folder over files with a context that
\* cannot be built
LiveNext ==
    \/ \E w \in 1..MaxWatchers, f \in AllFiles : OnAdd(w, f)
    \/ \E w \in 1..MaxWatchers, f \in AllFiles : OnChange(w, f)
    \/ \E w \in 1..MaxWatchers, f \in AllFiles : OnUnlink(w, f)
    \/ \E r \in 1..MaxReaders, c \in LiveContents : StreamData(r, c)
    \/ \E r \in 1..MaxReaders : StreamEnd(r)
    \/ \E r \in 1..MaxReaders : StreamError(r)
    \/ \E r \in 1..MaxReaders : StreamClose(r)

LiveSpec == WatchInit /\ [][LiveNext]_vars

\* ---------------------------------------------------- computeDiff by itself
SyncIdle == SyncInit /\ config = {}

DiffInit ==
    /\ SyncIdle
    /\ BatchIdle
    /\ TermIdle
    /\ dFile \in AllFiles
    /\ dContents = << >>
    /\ dSources = << >>

\* the map computeDiff is handed at its i-th application
SourceBefore(i) == IF i = 1 THEN EmptyMap ELSE dSources[i - 1]

\* one more read of dFile ends and its content is diffed into the map
DiffApply(contents) ==
    /\ Len(dContents) < MaxApply
    /\ dContents' = Append(dContents, contents)
    /\ dSources' = Append(dSources,
           computeDiff(contents, SourceBefore(Len(dSources) + 1), dFile, Len(dSources) + 1))
    /\ UNCHANGED dFile
    /\ UNCHANGED syncVars
    /\ UNCHANGED <<batchVars, termVars>>

DiffNext == \E c \in AllContents : DiffApply(c)

DiffSpec == DiffInit /\ [][DiffNext]_vars

\* ------------------------------------------- computeDiff, step by step
\* the file whose map is diffed
bFile == "/h/K/a"

\* the map of the other file of the folder, which no diff of bFile touches
siblingSource ==
    computeDiff(Text(<< [currentContext |-> "c1", valid |-> TRUE] >>),
                EmptyMap, "/h/K/b", 0)

\* derivedSource and computedSource over the two maps: the entities of both
AggregatedView(source) == Range(source) \cup Range(siblingSource)

BatchInit ==
    /\ SyncIdle
    /\ DiffIdle
    /\ TermIdle
    /\ bSource = EmptyMap
    /\ bBefore = EmptyMap
    /\ bContents = << >>
    /\ todo = NothingToDo
    /\ running = FALSE
    /\ inBatch = FALSE
    /\ stale = FALSE
    /\ observed = AggregatedView(EmptyMap)

\* a computeDiff whose body is not wrapped in an action
runInAction_none == FALSE

\* runInAction(() => ...): the body runs inside a MobX batch
runInAction == TRUE

\* the mutations a computeDiff of contents will make to source: clear() when
\* the parse throws, else the delete() of the first loop and the set() of
\* the second loop for the models that can be built
Mutations(contents, source, filePath) ==
    IF ~contents.parses
    THEN [clear |-> TRUE, deletes |-> {}, sets |-> {}]
    ELSE LET models == ModelMap(configToModels(contents, filePath))
             added == remainingModels(source, models)
         IN  [clear |-> FALSE,
              deletes |-> DOMAIN source \ DOMAIN models,
              sets |-> {n \in DOMAIN added : ~builderThrows(added[n])}]

\* computeDiff is called: the batch opens, the text is parsed
ComputeDiffBegins(contents) ==
    /\ ~running
    /\ Len(bContents) < MaxApply
    /\ running' = TRUE
    /\ inBatch' = runInAction
    /\ bBefore' = bSource
    /\ bContents' = Append(bContents, contents)
    /\ todo' = Mutations(contents, bSource, bFile)
    /\ UNCHANGED <<bSource, stale, observed>>
    /\ UNCHANGED <<syncVars, diffVars, termVars>>

\* one mutation of the observable map: inside a batch the computed views are
\* only invalidated, outside of one the reactions run at once and the
\* consumers are handed the new value
Mutated(after) ==
    /\ bSource' = after
    /\ IF inBatch
       THEN /\ stale' = (stale \/ after # bSource)
            /\ UNCHANGED observed
       ELSE /\ observed' = AggregatedView(after)
            /\ UNCHANGED stale

\* source.clear() in the outer catch
SourceClear ==
    /\ running
    /\ todo.clear
    /\ Mutated(ClearedSource(bSource))
    /\ todo' = [todo EXCEPT !.clear = FALSE]
    /\ UNCHANGED <<bBefore, bContents, running, inBatch>>
    /\ UNCHANGED <<syncVars, diffVars, termVars>>

\* source.delete(contextName) in the first loop
SourceDelete(contextName) ==
    /\ running
    /\ contextName \in todo.deletes
    /\ Mutated([n \in DOMAIN bSource \ {contextName} |-> bSource[n]])
    /\ todo' = [todo EXCEPT !.deletes = @ \ {contextName}]
    /\ UNCHANGED <<bBefore, bContents, running, inBatch>>
    /\ UNCHANGED <<syncVars, diffVars, termVars>>

\* source.set(contextName, entity) in the second loop, the first being done
SourceSet(contextName) ==
    /\ running
    /\ todo.deletes = {}
    /\ contextName \in todo.sets
    /\ LET models == ModelMap(configToModels(bContents[Len(bContents)], bFile))
           entity == catalogEntityFromCluster(clusterIdOf(bFile, contextName),
                                              models[contextName], Len(bContents))
       IN  Mutated([n \in DOMAIN bSource \cup {contextName} |->
                       IF n = contextName THEN entity ELSE bSource[n]])
    /\ todo' = [todo EXCEPT !.sets = @ \ {contextName}]
    /\ UNCHANGED <<bBefore, bContents, running, inBatch>>
    /\ UNCHANGED <<syncVars, diffVars, termVars>>

\* computeDiff returns: the batch closes and, the views being stale, the
\* reactions run and hand the consumers the new value
ComputeDiffEnds ==
    /\ running
    /\ todo = NothingToDo
    /\ running' = FALSE
    /\ inBatch' = FALSE
    /\ stale' = FALSE
    /\ IF stale
       THEN observed' = AggregatedView(bSource)
       ELSE UNCHANGED observed
    /\ UNCHANGED <<bSource, bBefore, bContents, todo>>
    /\ UNCHANGED <<syncVars, diffVars, termVars>>

BatchNext ==
    \/ \E c \in AllContents : ComputeDiffBegins(c)
    \/ SourceClear
    \/ \E n \in ContextNames : SourceDelete(n)
    \/ \E n \in ContextNames : SourceSet(n)
    \/ ComputeDiffEnds

BatchSpec == BatchInit /\ [][BatchNext]_vars

\* ----------------------------------------------------------- TerminalStore
TabIds == {"t1", "t2", "t3"}

\* new TerminalApi({ id: tabId, ... }); n tells one object from another made
\* for the same tab
NewTerminalApi(tabId, n) == [kind |-> "TerminalApi", id |-> tabId, n |-> n]

\* new Terminal(tabId, api)
NewTerminal(tabId, api) == [kind |-> "Terminal", tabId |-> tabId, api |-> api]

\* Boolean(this.connections.get(tabId))
isConnected(tabId) == tabId \in DOMAIN connections

\* the store as a value: what disconnect() reads and writes
Store == [connections |-> connections, terminals |-> terminals, destroyed |-> destroyed]

\* a disconnect() that forgets this.terminals.delete(tabId)
disconnect_keepsTerminal(store, tabId) ==
    IF tabId \notin DOMAIN store.connections \/ tabId \notin DOMAIN store.terminals
    THEN store
    ELSE [connections |-> [t \in DOMAIN store.connections \ {tabId} |-> store.connections[t]],
          terminals |-> store.terminals,
          destroyed |-> store.destroyed
                            \cup {store.terminals[tabId], store.connections[tabId]}]

\* disconnect(tabId): nothing when the tab is not connected (and a TypeError
\* before anything is done when it has no terminal); else both objects are
\* destroyed and both entries deleted
disconnect(store, tabId) ==
    IF tabId \notin DOMAIN store.connections \/ tabId \notin DOMAIN store.terminals
    THEN store
    ELSE [connections |-> [t \in DOMAIN store.connections \ {tabId} |-> store.connections[t]],
          terminals |-> [t \in DOMAIN store.terminals \ {tabId} |-> store.terminals[t]],
          destroyed |-> store.destroyed
                            \cup {store.terminals[tabId], store.connections[tabId]}]

RECURSIVE disconnectAll(_, _)
disconnectAll(store, tabIds) ==
    IF tabIds = {} THEN store
    ELSE LET t == CHOOSE x \in tabIds : TRUE
         IN  disconnectAll(disconnect(store, t), tabIds \ {t})

\* the store becomes what a run of disconnect() calls left
StoreBecomes(store) ==
    /\ connections' = store.connections
    /\ terminals' = store.terminals
    /\ destroyed' = store.destroyed

\* connect(tabId): nothing when connected; dockStore.getTabById of an id
\* the dock does not hold gives undefined and tab.node throws; else the api
\* and the terminal are made and both maps set
Connect(tabId) ==
    /\ created < MaxConnects
    /\ IF isConnected(tabId) \/ tabId \notin tabs
       THEN UNCHANGED termVars
       ELSE LET api == NewTerminalApi(tabId, created + 1)
            IN  /\ connections' = [t \in DOMAIN connections \cup {tabId} |->
                                      IF t = tabId THEN api ELSE connections[t]]
                /\ terminals' = [t \in DOMAIN terminals \cup {tabId} |->
                                    IF t = tabId THEN NewTerminal(tabId, api)
                                    ELSE terminals[t]]
                /\ created' = created + 1
                /\ UNCHANGED <<tabs, destroyed>>
    /\ UNCHANGED <<syncVars, diffVars, batchVars>>

Disconnect(tabId) ==
    /\ StoreBecomes(disconnect(Store, tabId))
    /\ UNCHANGED <<tabs, created>>
    /\ UNCHANGED <<syncVars, diffVars, batchVars>>

\* reset(): disconnect() for every connection there was
Reset ==
    /\ StoreBecomes(disconnectAll(Store, DOMAIN connections))
    /\ UNCHANGED <<tabs, created>>
    /\ UNCHANGED <<syncVars, diffVars, batchVars>>

\* the dock gets a tab
TabOpen(tabId) ==
    /\ tabId \notin tabs
    /\ tabs' = tabs \cup {tabId}
    /\ UNCHANGED <<connections, terminals, created, destroyed>>
    /\ UNCHANGED <<syncVars, diffVars, batchVars>>

\* the dock loses a tab and the second autorun of the constructor runs:
\* every connection whose tab the dock does not hold is disconnected
TabClose(tabId) ==
    /\ tabId \in tabs
    /\ tabs' = tabs \ {tabId}
    /\ StoreBecomes(disconnectAll(Store, DOMAIN connections \ tabs'))
    /\ UNCHANGED created
    /\ UNCHANGED <<syncVars, diffVars, batchVars>>

TermInit == SyncIdle /\ DiffIdle /\ BatchIdle /\ TermIdle

TermNext ==
    \/ \E t \in TabIds : TabOpen(t)
    \/ \E t \in TabIds : TabClose(t)
    \/ \E t \in TabIds : Connect(t)
    \/ \E t \in TabIds : Disconnect(t)
    \/ Reset

TermSpec == TermInit /\ [][TermNext]_vars

\* ------------------------------------------------------------------ claims
\* a watcher the manager created and nobody closed
Active(w) == w \in DOMAIN watchers /\ ~watchers[w].closed

\* the watchers sources holds
Held == {sources[p] : p \in DOMAIN sources}

\* C1: at any time at most one active (created, not closed) Source Watcher
\* exists per Watched Path
OneWatcherPerPath ==
    \A v \in DOMAIN watchers, w \in DOMAIN watchers :
        (Active(v) /\ Active(w) /\ watchers[v].filePath = watchers[w].filePath) => v = w

\* C2: a Source Watcher that was stopped (sources no longer holds it) has had
\* its teardown invoked, and when the manager is not syncing no filesystem
\* subscription of it is open
StoppedWatchersAreClosed ==
    /\ \A w \in DOMAIN watchers : w \notin Held => watchers[w].closed
    /\ ~syncing => \A w \in DOMAIN watchers : watchers[w].closed

\* the reader recorded for a file of a watcher, if the file is tracked
Current(r) ==
    LET w == readers[r].watcher
        f == readers[r].filePath
    IN  f \in DOMAIN watchers[w].stoppers /\ watchers[w].stoppers[f] = r

\* reader r applies a diff in this step
Applies(r) == readers'[r].applied > readers[r].applied

\* C3: a read that a "change" replaced while it was still reading never
\* applies its content: the read that applies is the one started last for its
\* file, and every entity of every map was built by a read that was not
\* replaced while reading
SupersededReadNeverApplied ==
    /\ [](\A r \in DOMAIN readers :
             readers[r].cancelled = "change" => readers[r].applied = 0)
    /\ [](\A m \in DOMAIN maps : \A n \in DOMAIN maps[m] :
             /\ maps[m][n].obj \in DOMAIN readers
             /\ readers[maps[m][n].obj].cancelled = "no"
             /\ readers[maps[m][n].obj].source = m)
    /\ [][\A r \in DOMAIN readers : Applies(r) => Current(r)]_vars

\* two "change" events in a row: the read of the first was replaced while it
\* was reading, the read of the second has applied its content
TwoChangesSecondApplied ==
    \E r1 \in DOMAIN readers, r2 \in DOMAIN readers, r3 \in DOMAIN readers :
        /\ r1 < r2 /\ r2 < r3
        /\ readers[r1].source = readers[r2].source
        /\ readers[r2].source = readers[r3].source
        /\ readers[r2].cancelled = "change"
        /\ readers[r2].phase = "ended"
        /\ readers[r3].applied = 1
        /\ maps[readers[r3].source] # EmptyMap

\* C4: a reader whose cancellation handle was invoked applies no diff from
\* then on, and no reader applies more than one diff
NoDiffAfterCancel ==
    /\ [](\A r \in DOMAIN readers : readers[r].applied <= 1)
    /\ [][\A r \in DOMAIN readers :
             (readers[r].closed \/ readers[r].cancelled # "no")
                 => /\ readers'[r].applied = readers[r].applied
                    /\ (readers'[r].phase # readers[r].phase => maps' = maps)]_vars

\* a reader was cancelled with its content buffered, and the end of its
\* stream came afterwards
EndAfterCancelBuffered ==
    \E r \in DOMAIN readers :
        /\ readers[r].cancelled # "no"
        /\ readers[r].unread > 0
        /\ readers[r].phase = "ended"
        /\ readers[r].applied = 0

\* the files of watcher w that have an entity in its view
FilesInView(w) == {e.filePath : e \in derivedSource(w)}

\* C5: a file that is unlinked, and not added again, has no entity in the
\* view of its watcher, from the state the unlink leaves on; a read that the
\* unlink stopped never applies
UnlinkedFileNotInView ==
    /\ \A w \in DOMAIN watchers :
           FilesInView(w) \subseteq DOMAIN watchers[w].stoppers
    /\ \A r \in DOMAIN readers : readers[r].cancelled = "unlink" => readers[r].applied = 0

\* a file that had entities was unlinked while a read of it was under way,
\* and the stream of that read has ended since
UnlinkedWithEntities ==
    \E r \in DOMAIN readers :
        /\ readers[r].cancelled = "unlink"
        /\ readers[r].phase = "ended"
        /\ maps[readers[r].source] # EmptyMap
        /\ readers[r].filePath \notin DOMAIN watchers[readers[r].watcher].stoppers
        /\ readers[r].filePath \notin FilesInView(readers[r].watcher)

\* C6: no two elements of the global aggregated view carry the same
\* identifier
UniqueIdentifiers ==
    \A d \in computedSource, e \in computedSource :
        d.entity.id = e.entity.id => d = e

\* C7: a diff of content the parser rejects leaves the map of its file empty
\* and every other map as it was
MalformedClearsOnlyItsFile ==
    [][\A r \in DOMAIN readers :
          (Applies(r) /\ ~Buffered(readers[r]).parses)
              => /\ maps'[readers[r].source] = EmptyMap
                 /\ \A m \in DOMAIN maps :
                        m # readers[r].source => maps'[m] = maps[m]]_vars

\* malformed content has just cleared a map that held entities, while the map
\* of another file holds some
MalformedClearedOne ==
    \E r \in DOMAIN readers :
        /\ readers[r].applied = 1
        /\ readers[r].listening
        /\ ~Buffered(readers[r]).parses
        /\ readers[r].before # EmptyMap
        /\ maps[readers[r].source] = EmptyMap
        /\ \E m \in DOMAIN maps : m # readers[r].source /\ maps[m] # EmptyMap

\* C8: a read whose stream failed applied nothing, and as long as no further
\* event came for its file the map holds what it held when the read started
FailedReadKeepsEntities ==
    \A r \in DOMAIN readers :
        readers[r].phase = "errored"
            => /\ readers[r].applied = 0
               /\ Current(r) => maps[readers[r].source] = readers[r].before

\* the stream of a read failed, with content buffered or not, on a file whose
\* map held entities
FailedOverEntities ==
    \E r \in DOMAIN readers :
        /\ readers[r].phase = "errored"
        /\ Current(r)
        /\ readers[r].before # EmptyMap

\* the names of the contexts of a text that pass validation
ValidNames(contents) ==
    {contents.contexts[i].currentContext :
        i \in {j \in DOMAIN contents.contexts : contents.contexts[j].valid}}

\* C9: one diff of parsable content into an empty map leaves one entity per
\* valid context name whose entity can be built (one per valid name when all
\* can), keyed by its name, with the identifier md5 of "<file>:<name>"
OnePassLeavesValidContexts ==
    (Len(dSources) >= 1 /\ dContents[1].parses) =>
        LET names == ValidNames(dContents[1])
            built == dSources[1]
        IN  /\ DOMAIN built = names \ UnbuildableContexts
            /\ (names \cap UnbuildableContexts = {}
                    => Cardinality(DOMAIN built) = Cardinality(names))
            /\ \A n \in DOMAIN built :
                   /\ built[n].contextName = n
                   /\ built[n].kubeConfigPath = dFile
                   /\ built[n].id = "md5(" \o dFile \o ":" \o n \o ")"

\* a pass over a valid context that cannot be built and a valid one that can
OnePassSkippedOne ==
    /\ Len(dSources) >= 1
    /\ dContents[1].parses
    /\ ValidNames(dContents[1]) \cap UnbuildableContexts # {}
    /\ Cardinality(DOMAIN dSources[1]) = 1
    /\ Cardinality(ValidNames(dContents[1])) = 2

\* C10: a second diff of the same content leaves the map exactly as the first
\* left it, the entities being the same objects
SameContentSameMap ==
    \A i \in DOMAIN dSources :
        (i > 1 /\ dContents[i] = dContents[i - 1]) => dSources[i] = dSources[i - 1]

\* the same content was diffed twice and the map holds entities
SameContentTwice ==
    /\ Len(dSources) = 2
    /\ dContents[1] = dContents[2]
    /\ dSources[2] # EmptyMap

\* C11: a stat that rejects adds no Source Watcher and leaves the catalog
\* registration, the configuration subscription and the other paths as they
\* are; a stat that succeeds gives its path a Source Watcher, whatever
\* happened to the other paths
FailedStartSkipsOnlyItsPath ==
    [][\A p \in WatchedPaths :
          pending'[p] < pending[p] =>
              IF Len(watchers') = Len(watchers)
              THEN /\ sources' = sources
                   /\ disposers' = disposers
                   /\ registered' = registered
                   /\ \A q \in WatchedPaths \ {p} : pending'[q] = pending[q]
              ELSE /\ p \in DOMAIN sources'
                   /\ watchers'[sources'[p]].filePath = p
                   /\ ~watchers'[sources'[p]].closed
                   /\ \A q \in DOMAIN sources \ {p} :
                          q \in DOMAIN sources' /\ sources'[q] = sources[q]
                   /\ disposers' = disposers
                   /\ registered' = registered]_vars

\* the start of the configured file failed and the start of the folder
\* succeeded: the manager is syncing, registered and subscribed, and holds
\* the folder's watcher alone
FailedPathSkipped ==
    /\ syncing
    /\ observing
    /\ registered = 1
    /\ \A p \in WatchedPaths : pending[p] = 0
    /\ "/h/K/a" \in config
    /\ DOMAIN sources = {storedKubeConfigFolder}
    /\ Len(watchers) = 1

\* C12: the manager is syncing exactly when its view is registered, which it
\* is at most once, with at most one configuration subscription; startSync()
\* while syncing adds neither, and stopSync() while not syncing changes
\* nothing
SyncingIffRegisteredOnce ==
    /\ [](syncing <=> registered = 1)
    /\ [](/\ registered \in {0, 1}
          /\ Cardinality({i \in DOMAIN disposers : disposers[i] = "configObserver"}) <= 1)
    /\ [][(syncing /\ \E f \in BOOLEAN : StartSync(f))
              => (registered' = registered /\ disposers' = disposers)]_vars
    /\ [][(~syncing /\ StopSync) => UNCHANGED vars]_vars

\* C13: once no start is awaiting its stat, the manager holds no Source
\* Watcher when it is not syncing, and otherwise holds watchers only for the
\* well-known folder and the configured paths
HeldPathsAreConfigured ==
    (\A p \in WatchedPaths : pending[p] = 0) =>
        IF syncing
        THEN DOMAIN sources \subseteq {storedKubeConfigFolder} \cup config
        ELSE DOMAIN sources = {}

\* C14: no Child File has two outstanding Streaming Readers at once: each
\* read started for a file, by add or by change, finds every earlier read of
\* that file ended, failed or cancelled
OneOutstandingReaderPerFile ==
    \A r \in DOMAIN readers, q \in DOMAIN readers :
        (/\ Outstanding(readers[r])
         /\ Outstanding(readers[q])
         /\ readers[r].filePath = readers[q].filePath) => r = q

\* C17: a diff of parsable content removes the names of the map that are not
\* valid contexts of the content, leaves each name that is one mapped to the
\* very entity it had, and adds each further valid context that can be built
DiffRemovesKeepsAdds ==
    \A i \in DOMAIN dSources :
        dContents[i].parses =>
            LET before == SourceBefore(i)
                after == dSources[i]
                names == ValidNames(dContents[i])
            IN  /\ \A n \in DOMAIN before \ names : n \notin DOMAIN after
                /\ \A n \in DOMAIN before \cap names :
                       n \in DOMAIN after /\ after[n] = before[n]
                /\ \A n \in names \ DOMAIN before :
                       n \notin UnbuildableContexts =>
                           /\ n \in DOMAIN after
                           /\ after[n].obj = i
                           /\ after[n].id = clusterIdOf(dFile, n)

\* the first diff added two contexts; the second removed one of them and
\* kept the other, built by the first
SecondDiffRemovedAndKept ==
    /\ Len(dSources) = 2
    /\ dContents[1].parses
    /\ dContents[2].parses
    /\ DOMAIN dSources[1] = {"c1", "c2"}
    /\ DOMAIN dSources[2] = {"c2"}
    /\ dSources[2]["c2"].obj = 1

\* C19: with the events of each file coming as add, change*, unlink, a
\* change or unlink handler never calls a handle that is not recorded, also
\* when the read of the handle has ended or failed; a file that is unlinked
\* (or was never added) has neither a recorded handle nor a map
HandleAlwaysRecorded ==
    \A w \in DOMAIN watchers :
        /\ ~watchers[w].threw
        /\ \A f \in watchers[w].tracked :
               /\ f \in DOMAIN watchers[w].stoppers
               /\ watchers[w].stoppers[f] \in DOMAIN readers
               /\ readers[watchers[w].stoppers[f]].filePath = f
               /\ readers[watchers[w].stoppers[f]].watcher = w
        /\ \A f \in AllFiles \ watchers[w].tracked :
               /\ f \notin DOMAIN watchers[w].stoppers
               /\ f \notin DOMAIN watchers[w].rootSource

\* a change came after the read before it had ended by itself and applied
\* its diff (the new read got the same map), and the unlink came after the
\* new read had failed
HandlesOfFinishedReadsInvoked ==
    \E w \in DOMAIN watchers, r \in DOMAIN readers, q \in DOMAIN readers :
        /\ r < q
        /\ readers[r].watcher = w /\ readers[q].watcher = w
        /\ readers[r].filePath = readers[q].filePath
        /\ readers[r].source = readers[q].source
        /\ readers[r].applied = 1 /\ readers[r].cancelled = "no"
        /\ readers[q].phase = "errored" /\ readers[q].cancelled = "no"
        /\ readers[q].filePath \notin watchers[w].tracked
        /\ \A x \in DOMAIN readers : x > q => readers[x].filePath # readers[q].filePath

\* the read started by the last event of its file ends by itself
LastReadEnds(r) ==
    /\ Current(r)
    /\ Outstanding(readers[r])
    /\ readers'[r].phase = "ended"

\* when the read started by the last event of a file ends by itself, the map
\* of the file holds the contexts Names picks from the content read
EndLeaves(Names(_)) ==
    \A r \in DOMAIN readers :
        LastReadEnds(r) =>
            /\ Applies(r)
            /\ DOMAIN maps'[readers[r].source] = Names(Buffered(readers[r]))

\* the map the last read of a file wrote is not touched while that read stays
\* the last one started for the file
StaysUntilNextEvent ==
    \A r \in DOMAIN readers :
        (Current(r) /\ readers[r].applied = 1 /\ Current(r)')
            => maps'[readers[r].source] = maps[readers[r].source]

\* the end of the last read of a file neither waits for another read nor
\* touches one: the other reads are where they were, open ones included
EndBesideOtherReads ==
    \A r \in DOMAIN readers :
        LastReadEnds(r) =>
            \A q \in DOMAIN readers \ {r} : readers'[q] = readers[q]

\* the valid contexts of a text whose entity can be built
BuildableNames(contents) == ValidNames(contents) \ UnbuildableContexts

\* C18 as stated: once the read started by the last add or change of a file
\* has ended without error, the map of the file holds exactly the valid
\* contexts of the content read and keeps them until the next event of the
\* file; the open read of another file does not hold this up
LastReadLeavesValidContexts ==
    /\ [][EndLeaves(ValidNames)]_vars
    /\ [][StaysUntilNextEvent]_vars
    /\ [][EndBesideOtherReads]_vars

\* C18 amended: once the read started by the last add or change of a file
\* has ended without error, the map of the file holds exactly the valid
\* contexts of the content read whose entity could be built, and keeps them
\* until the next event of the file; the open read of another file does not
\* hold this up
LastReadLeavesBuildableContexts ==
    /\ [][EndLeaves(BuildableNames)]_vars
    /\ [][StaysUntilNextEvent]_vars
    /\ [][EndBesideOtherReads]_vars

\* the last read of a file has ended over two valid contexts and left the
\* one that could be built, while an earlier read of another file is open
EndedBesideOpenRead ==
    \E r \in DOMAIN readers, q \in DOMAIN readers :
        /\ q < r
        /\ readers[q].filePath # readers[r].filePath
        /\ Outstanding(readers[q])
        /\ Current(r)
        /\ readers[r].phase = "ended"
        /\ readers[r].applied = 1
        /\ readers[r].listening
        /\ ValidNames(Buffered(readers[r])) = {"c1", "c3"}
        /\ DOMAIN maps[readers[r].source] = {"c1"}

\* C15: once the teardown of a Source Watcher has run, no read applies a
\* diff to a map of that watcher
NoDiffAfterTeardown ==
    [][\A r \in DOMAIN readers :
          Applies(r) => ~watchers[readers[r].watcher].closed]_vars

\* C16: what the consumers of the aggregated view were last handed is the
\* union of the maps as they were before the whole diff or as they are after
\* the whole diff, the diff being the one computeDiff computes; never a state
\* with only some of its removals and additions
ObserversSeeWholeDiffs ==
    IF bContents = << >>
    THEN observed = AggregatedView(EmptyMap)
    ELSE LET after == computeDiff(bContents[Len(bContents)], bBefore, bFile,
                                  Len(bContents))
         IN  /\ observed \in {AggregatedView(bBefore), AggregatedView(after)}
             /\ ~running => (bSource = after /\ observed = AggregatedView(after))

\* a diff has made its removal and not yet its addition: the map is neither
\* what it was nor what it will be, and the consumers hold the view of before
MidDiffUnobserved ==
    /\ running
    /\ stale
    /\ todo.sets # {}
    /\ bBefore # EmptyMap
    /\ bSource # bBefore
    /\ bSource # computeDiff(bContents[Len(bContents)], bBefore, bFile, Len(bContents))
    /\ observed = AggregatedView(bBefore)

\* C20: the tabs with a connection are the tabs with a terminal, each with
\* live objects of its own; connect() of a connected tab makes nothing,
\* disconnect() of an unconnected tab changes nothing, and a tab loses its
\* connection only with its terminal and its connection destroyed
TerminalsMatchConnections ==
    /\ [](DOMAIN connections = DOMAIN terminals)
    /\ [](\A t \in DOMAIN connections :
              /\ connections[t].id = t
              /\ connections[t] \notin destroyed
              /\ t \in DOMAIN terminals =>
                     (terminals[t].api = connections[t] /\ terminals[t] \notin destroyed))
    /\ [][\A t \in TabIds :
              (isConnected(t) /\ Connect(t)) => UNCHANGED termVars]_vars
    /\ [][\A t \in TabIds :
              (~isConnected(t) /\ Disconnect(t)) => UNCHANGED termVars]_vars
    /\ [][\A t \in DOMAIN connections :
              t \notin DOMAIN connections'
                  => (/\ t \notin DOMAIN terminals'
                      /\ connections[t] \in destroyed'
                      /\ terminals[t] \in destroyed')]_vars

\* a tab was connected, disconnected and connected again beside another
\* connected tab that was then disconnected
ReconnectedAfterDisconnect ==
    /\ created = 3
    /\ Cardinality(DOMAIN connections) = 1
    /\ Cardinality(DOMAIN terminals) = 1
    /\ Cardinality(destroyed) = 4
    /\ \E t \in DOMAIN connections :
           \E d \in destroyed : d.kind = "TerminalApi" /\ d.id = t

TypeOK ==
    /\ registered \in 0..1
    /\ Len(watchers) <= MaxWatchers
    /\ Len(readers) <= MaxReaders
    /\ Len(dSources) <= MaxApply

====
